---- MODULE Spec2Model ----
(***************************************************************************)
(* A model of stat_server.py: the wrapper that relays the response of      *)
(* distccd's --stats server and injects the dcc_free_mem line into it.     *)
(*                                                                         *)
(* Text is a sequence of one-character strings, so that substring tests,   *)
(* str.splitlines, str.split, str.join, int() and "%d" are computed as     *)
(* Python computes them.  Every character of the model's alphabet is       *)
(* ASCII, except Micro, which UTF-8 encodes in two bytes.                  *)
(***************************************************************************)
EXTENDS Integers, Sequences, FiniteSets, TLC

VARIABLES
    has_warned_about_being_unnecessary, \* DistCCStatsMITMHTTPServer's flag
    backlog,           \* connections waiting in the listening socket, oldest first
    pc,                \* per handler: the statement of do_GET it is at
    upstream,          \* per handler: what urlopen produced
    distccd_response,  \* per handler: the decoded upstream body
    code,              \* per handler: the upstream status
    headers,           \* per handler: the upstream headers
    free_output,       \* per handler: what subprocess.check_output produced
    free_result,       \* per handler: the lines `free` printed
    dcc_free_mem,      \* per handler: the parsed sample, or None
    wire,              \* per handler: what was written to the caller, in order
    access_log,        \* per handler: entries log_access emitted in this request
    error_log,         \* per handler: entries log_message emitted in this request
    sampler_calls,     \* per handler: runs of `free` in this request
    fetch_calls,       \* per handler: calls of urlopen in this request
    system_log,        \* number of "wrapper is unnecessary" lines in the system log
    instrumented_seen, \* requests so far that took the already-instrumented branch
    warned_now,        \* per handler: did this request emit the warning
    overlapped,        \* per handler: did its connection arrive while another
                       \* request was in the already-instrumented branch
    writable,          \* per log file: does open(file, 'a') succeed now
    landed             \* per handler: where each log line of this request went

vars == <<has_warned_about_being_unnecessary, backlog, pc, upstream,
          distccd_response, code, headers, free_output, free_result,
          dcc_free_mem, wire, access_log, error_log, sampler_calls, fetch_calls,
          system_log, instrumented_seen, warned_now, overlapped, writable, landed>>

\* Optional[...]: None is the empty sequence, a value x is <<x>>
None == <<>>
Some(x) == <<x>>

(***************************************************************************)
(* Text                                                                    *)
(***************************************************************************)
START_MARKER == <<"<","d","i","s","t","c","c","s","t","a","t","s",">">>
END_MARKER == <<"<","/","d","i","s","t","c","c","s","t","a","t","s",">">>
METRIC_TOKEN == <<"d","c","c","_","f","r","e","e","_","m","e","m">>
MEM_PREFIX == <<"M","e","m",":">>
FOO_1 == <<"f","o","o"," ","1">>
LF == <<"\n">>

\* `sub in s` of Python, for a non-empty sub
In(sub, s) ==
    \E i \in 1..(Len(s) - Len(sub) + 1) : SubSeq(s, i, i + Len(sub) - 1) = sub

\* the indexes at which sub occurs in s, and the first of them
Positions(sub, s) ==
    {i \in 1..(Len(s) - Len(sub) + 1) : SubSeq(s, i, i + Len(sub) - 1) = sub}

FirstAt(sub, s) ==
    CHOOSE i \in Positions(sub, s) : \A j \in Positions(sub, s) : i <= j

\* str.startswith
StartsWith(s, prefix) ==
    Len(s) >= Len(prefix) /\ SubSeq(s, 1, Len(prefix)) = prefix

\* the characters str.splitlines breaks a line at (of the model's alphabet)
LineBreaks == {"\n", "\r"}

FirstBreak(s) ==
    IF \E i \in 1..Len(s) : s[i] \in LineBreaks
    THEN CHOOSE i \in 1..Len(s) :
             s[i] \in LineBreaks /\ \A j \in 1..(i - 1) : s[j] \notin LineBreaks
    ELSE 0

\* str.splitlines(): the lines without their terminators; "\r\n" is one
\* terminator; no empty last line after a final terminator
RECURSIVE SplitLines(_)
SplitLines(s) ==
    IF s = <<>> THEN <<>>
    ELSE LET k == FirstBreak(s) IN
         IF k = 0 THEN <<s>>
         ELSE LET e == IF s[k] = "\r" /\ k < Len(s) /\ s[k + 1] = "\n"
                       THEN k + 1 ELSE k
              IN <<SubSeq(s, 1, k - 1)>> \o SplitLines(SubSeq(s, e + 1, Len(s)))

\* sep.join(parts)
RECURSIVE Join(_, _)
Join(sep, parts) ==
    IF parts = <<>> THEN <<>>
    ELSE IF Len(parts) = 1 THEN parts[1]
    ELSE parts[1] \o sep \o Join(sep, Tail(parts))

\* str.split(' '): the pieces between single spaces, empty pieces included
RECURSIVE SplitOnSpace(_)
SplitOnSpace(s) ==
    IF \E i \in 1..Len(s) : s[i] = " "
    THEN LET k == CHOOSE i \in 1..Len(s) :
                      s[i] = " " /\ \A j \in 1..(i - 1) : s[j] # " "
         IN <<SubSeq(s, 1, k - 1)>> \o SplitOnSpace(SubSeq(s, k + 1, Len(s)))
    ELSE <<s>>

\* list(filter(bool, pieces)): the non-empty pieces
RECURSIVE FilterNonEmpty(_)
FilterNonEmpty(ps) ==
    IF ps = <<>> THEN <<>>
    ELSE IF Head(ps) = <<>> THEN FilterNonEmpty(Tail(ps))
    ELSE <<Head(ps)>> \o FilterNonEmpty(Tail(ps))

Digits == <<"0","1","2","3","4","5","6","7","8","9">>
IsDigit(c) == \E d \in 1..10 : Digits[d] = c
DigitValue(c) == (CHOOSE d \in 1..10 : Digits[d] = c) - 1

RECURSIVE DigitsValue(_)
DigitsValue(s) ==
    IF s = <<>> THEN 0
    ELSE DigitsValue(SubSeq(s, 1, Len(s) - 1)) * 10 + DigitValue(s[Len(s)])

\* int(s) succeeds: an optional sign and at least one digit
IsInt(s) ==
    LET d == IF s # <<>> /\ s[1] \in {"+", "-"} THEN Tail(s) ELSE s
    IN d # <<>> /\ \A i \in 1..Len(d) : IsDigit(d[i])

\* int(s)
ParseInt(s) ==
    IF s[1] = "-" THEN 0 - DigitsValue(Tail(s))
    ELSE IF s[1] = "+" THEN DigitsValue(Tail(s))
    ELSE DigitsValue(s)

RECURSIVE NatToStr(_)
NatToStr(n) ==
    IF n < 10 THEN <<Digits[n + 1]>>
    ELSE NatToStr(n \div 10) \o <<Digits[(n % 10) + 1]>>

\* "%d" % n
FormatD(n) == IF n < 0 THEN <<"-">> \o NatToStr(0 - n) ELSE NatToStr(n)

(***************************************************************************)
(* Bytes.  A byte is named by its ASCII character, or by its hexadecimal   *)
(* value when it is not ASCII.                                             *)
(***************************************************************************)
Micro == "U+00B5"
NonAsciiBytes == {"C2", "B5"}

\* str.encode(): UTF-8
RECURSIVE Encode(_)
Encode(s) ==
    IF s = <<>> THEN <<>>
    ELSE (IF Head(s) = Micro THEN <<"C2", "B5">> ELSE <<Head(s)>>)
         \o Encode(Tail(s))

\* bytes.decode() succeeds: the bytes are well-formed UTF-8
RECURSIVE Decodable(_)
Decodable(b) ==
    IF b = <<>> THEN TRUE
    ELSE IF Head(b) = "C2"
         THEN Len(b) >= 2 /\ b[2] = "B5" /\ Decodable(Tail(Tail(b)))
    ELSE IF Head(b) \in NonAsciiBytes THEN FALSE
    ELSE Decodable(Tail(b))

\* bytes.decode()
RECURSIVE Decode(_)
Decode(b) ==
    IF b = <<>> THEN <<>>
    ELSE IF Head(b) = "C2" THEN <<Micro>> \o Decode(Tail(Tail(b)))
    ELSE <<Head(b)>> \o Decode(Tail(b))

(***************************************************************************)
(* Bounds and inputs                                                       *)
(***************************************************************************)
MaxPieces == 3        \* pieces of text an upstream body is made of
MaxBacklog == 2       \* connections waiting to be accepted
MaxInstrumented == 2  \* already-instrumented requests per run
MaxHandlers == 2      \* handler frames the model keeps

Handlers == 1..MaxHandlers

NO_CONTENT == 204
NON_AUTHORITATIVE_INFORMATION == 203
INTERNAL_SERVER_ERROR == 500

\* what an upstream body is made of: a text and what ends its line
PieceTexts == {<<>>, START_MARKER, END_MARKER, METRIC_TOKEN, FOO_1}
PieceEnds == {<<>>, LF}
Pieces == {t \o e : t \in PieceTexts, e \in PieceEnds} \ {<<>>}

RECURSIVE TextsUpTo(_)
TextsUpTo(n) ==
    IF n = 0 THEN {<<>>}
    ELSE LET shorter == TextsUpTo(n - 1)
         IN shorter \cup {t \o p : t \in shorter, p \in Pieces}

\* a body with a two-byte character; a body in CRLF; a body that is not UTF-8
ExtraBodies ==
    { Encode(START_MARKER \o LF \o <<Micro, " ", "1">> \o LF \o END_MARKER \o LF),
      Encode(START_MARKER \o <<"\r", "\n">> \o END_MARKER \o <<"\r", "\n">>),
      START_MARKER \o <<"B5">> \o END_MARKER }

UpstreamBodies == {Encode(t) : t \in TextsUpTo(MaxPieces)} \cup ExtraBodies

\* urlopen raises HTTPError for the statuses that are not 2xx
UpstreamCodes == {200, 206}

CONTENT_TYPE == <<"Content-Type", <<"text/plain">>>>
CONNECTION == <<"Connection", <<"close">>>>
ContentLength(n) == <<"Content-Length", FormatD(n)>>

\* the headers of a response with body b: the length, when stated, is b's
UpstreamHeaders(b) ==
    { <<CONTENT_TYPE, CONNECTION>>,
      <<CONTENT_TYPE, ContentLength(Len(b)), CONNECTION>> }

Response(c, h, b) == [kind |-> "response", code |-> c, headers |-> h, body |-> b]
\* urlopen raises: the connection is refused, or the status is 4xx or 5xx
URLError == [kind |-> "URLError", code |-> 0, headers |-> <<>>, body |-> <<>>]
HTTPError == [kind |-> "HTTPError", code |-> 503, headers |-> <<>>, body |-> <<>>]

ResponsesOf(bodies) ==
    UNION { {Response(c, h, b) : c \in UpstreamCodes, h \in UpstreamHeaders(b)}
            : b \in bodies }

UpstreamOutcomes == ResponsesOf(UpstreamBodies) \cup {URLError, HTTPError}

\* lines `free --mebi --wide` prints (shortened)
FREE_COLUMNS == <<" ","t","o","t","a","l"," ","a","v","a","i","l","a","b","l","e">>
FREE_MEM_512 == <<"M","e","m",":"," "," ","1","6"," ","5","1","2">>
FREE_MEM_7 == <<"M","e","m",":"," ","7">>
FREE_MEM_9 == <<"M","e","m",":"," ","9">>
FREE_MEM_BAD == <<"M","e","m",":"," ","1","6"," ","x">>
FREE_SWAP == <<"S","w","a","p",":"," ","0">>

RECURSIVE Unlines(_)
Unlines(ls) == IF ls = <<>> THEN <<>> ELSE Head(ls) \o LF \o Unlines(Tail(ls))

Ran(out) == [ran |-> TRUE, out |-> Encode(Unlines(out))]
CalledProcessError == [ran |-> FALSE, out |-> <<>>]

\* what subprocess.check_output can produce
FreeOutcomes ==
    { Ran(<<FREE_COLUMNS, FREE_MEM_512, FREE_SWAP>>),
      Ran(<<FREE_MEM_7>>),
      Ran(<<FREE_COLUMNS, FREE_SWAP>>),
      Ran(<<FREE_MEM_BAD>>),
      Ran(<<FREE_MEM_7, FREE_MEM_9>>),
      Ran(<<FREE_MEM_7, FREE_MEM_BAD>>),
      CalledProcessError }

(***************************************************************************)
(* The response written to the caller, and the logs                        *)
(***************************************************************************)
StatusLine(c) == [t |-> "status", v |-> c]
Header(h) == [t |-> "header", v |-> h]
EndHeaders == [t |-> "end_headers", v |-> <<>>]
Body(b) == [t |-> "body", v |-> b]

RECURSIVE HeaderEvents(_)
HeaderEvents(hs) ==
    IF hs = <<>> THEN <<>> ELSE <<Header(Head(hs))>> \o HeaderEvents(Tail(hs))

\* log_request: one access-log entry, of str(code) and str(size)
LogRequest(c, size) == [code |-> FormatD(c), size |-> size]

\* a slip: without an override the status is always 200
MimicCodeOK(w, override_code) ==
    IF override_code # None THEN override_code[1] ELSE 200

\* a slip: the override is not applied
MimicCodeIgnoresOverride(w, override_code) == code[w]

\* _mimic_response_headers: the status is the override when there is one
MimicCode(w, override_code) ==
    IF override_code # None THEN override_code[1] ELSE code[w]

\* a slip: the upstream's headers are dropped
SentNoHeaders(w) == <<>>

\* _mimic_response_headers, then the write of the body
SentHeaders(w) == headers[w]

\* a slip: the body is written before the header section is closed
SendResponseWireBodyFirst(w, response, override_code) ==
    <<StatusLine(MimicCode(w, override_code))>>
        \o HeaderEvents(SentHeaders(w))
        \o <<Body(response), EndHeaders>>

SendResponseWire(w, response, override_code) ==
    <<StatusLine(MimicCode(w, override_code))>>
        \o HeaderEvents(SentHeaders(w))
        \o <<EndHeaders, Body(response)>>

\* a slip: the upstream's status is logged, whatever the override
SendResponseLogUpstream(w, response, override_code) ==
    LogRequest(code[w], FormatD(Len(response)))

SendResponseLog(w, response, override_code) ==
    LogRequest(MimicCode(w, override_code), FormatD(Len(response)))

\* send_error(500, message, explain): BaseHTTPRequestHandler's error page
ERROR_PAGE == <<"An exception occurred when querying the --stats server">>
\* a slip: the error is answered without a body
SendErrorWireEmpty ==
    <<StatusLine(INTERNAL_SERVER_ERROR), Header(<<"Connection", <<"close">>>>),
      EndHeaders>>

SendErrorWire ==
    <<StatusLine(INTERNAL_SERVER_ERROR),
      Header(<<"Connection", <<"close">>>>),
      Header(<<"Content-Type", <<"text/html;charset=utf-8">>>>),
      Header(ContentLength(Len(ERROR_PAGE))),
      EndHeaders, Body(ERROR_PAGE)>>

(***************************************************************************)
(* Where a log line goes                                                   *)
(***************************************************************************)
LogFiles == {"access", "error", "system"}

\* one line that reached a file or the standard error: what it is (an entry,
\* the note of a failed write, the warning), the file it was meant for and
\* its number among this request's entries of that file
Landed(to, by, what, file, n) ==
    [to |-> to, by |-> by, what |-> what, file |-> file, n |-> n]

\* _syslog: the line is appended to the system log; printed if that fails
Syslog(what, file, n) ==
    <<Landed(IF writable["system"] THEN "system" ELSE "stderr", "_syslog",
             what, file, n)>>

\* log: the line is appended to its file; if that fails, a note and the line
\* go to _syslog and the line is printed
Log(file, n) ==
    IF writable[file]
    THEN <<Landed(file, "log", "entry", file, n)>>
    ELSE Syslog("note", file, n) \o Syslog("entry", file, n)
            \o <<Landed("stderr", "log", "entry", file, n)>>

\* log_access and log_message, for the next entry of the request
LogAccess(w) == Log("access", Len(access_log[w]) + 1)
LogMessage(w) == Log("error", Len(error_log[w]) + 1)

(***************************************************************************)
(* The memory sample                                                       *)
(***************************************************************************)
Last(seq) == seq[Len(seq)]

\* the loop over free_result: every line that starts with "Mem:" assigns
\* dcc_free_mem, and int() raises on a last field that is no integer
RECURSIVE ScanFree(_, _)
ScanFree(lines, found) ==
    IF lines = <<>> THEN [raised |-> FALSE, value |-> found]
    ELSE IF StartsWith(Head(lines), MEM_PREFIX)
         THEN LET values == FilterNonEmpty(SplitOnSpace(Head(lines)))
              IN IF IsInt(Last(values))
                 THEN ScanFree(Tail(lines), Some(ParseInt(Last(values))))
                 ELSE [raised |-> TRUE, value |-> found]
    ELSE ScanFree(Tail(lines), found)

\* a slip: a missing "Mem:" line is not an error, the sample is then 0
SampleOfDefaultZero(outcome) ==
    IF ~outcome.ran \/ ~Decodable(outcome.out)
    THEN [raised |-> TRUE, value |-> None, lines |-> <<>>]
    ELSE LET lines == SplitLines(Decode(outcome.out))
             scan == ScanFree(lines, Some(0))
         IN [raised |-> scan.raised, value |-> scan.value, lines |-> lines]

\* the try block: the command ran, no line raised, and a value was found
SampleOf(outcome) ==
    IF ~outcome.ran \/ ~Decodable(outcome.out)
    THEN [raised |-> TRUE, value |-> None, lines |-> <<>>]
    ELSE LET lines == SplitLines(Decode(outcome.out))
             scan == ScanFree(lines, None)
         IN [raised |-> scan.raised \/ scan.value = None,
             value |-> scan.value, lines |-> lines]

(***************************************************************************)
(* The rewritten body                                                      *)
(***************************************************************************)
\* a slip: the line is put after the last element
InsertAfterLast(lines, x) == Append(lines, x)

\* list.insert(-1, x): before the last element; first in an empty list
InsertBeforeLast(lines, x) ==
    IF lines = <<>> THEN <<x>>
    ELSE SubSeq(lines, 1, Len(lines) - 1) \o <<x>> \o <<Last(lines)>>

MetricLine(n) == METRIC_TOKEN \o <<" ">> \o FormatD(n) \o <<" ", "M", "B">>

\* a slip: the empty last element is not appended
InjectedWithoutAppend(body, n) ==
    Join(LF, InsertBeforeLast(SplitLines(body), MetricLine(n)))

Injected(body, n) ==
    LET response_lines == Append(InsertBeforeLast(SplitLines(body), MetricLine(n)), <<>>)
    IN Join(LF, response_lines)

\* a slip: the end marker is not looked for
InvalidWithoutEndTest(body) == body = <<>> \/ ~In(START_MARKER, body)

\* a slip: the markers are also required to be in order
InvalidOutOfOrder(body) ==
    \/ body = <<>> \/ ~In(START_MARKER, body) \/ ~In(END_MARKER, body)
    \/ FirstAt(END_MARKER, body) < FirstAt(START_MARKER, body)

\* the test of line 184
Invalid(body) ==
    body = <<>> \/ ~In(START_MARKER, body) \/ ~In(END_MARKER, body)

\* the test of line 193
Instrumented(body) == In(METRIC_TOKEN, body)

(***************************************************************************)
(* The server and its handlers                                             *)
(***************************************************************************)
NoUpstream == [kind |-> "none", code |-> 0, headers |-> <<>>, body |-> <<>>]
NotRun == [ran |-> FALSE, out |-> <<>>]

Init ==
    /\ has_warned_about_being_unnecessary = FALSE
    /\ backlog = <<>>
    /\ pc = [w \in Handlers |-> "idle"]
    /\ upstream = [w \in Handlers |-> NoUpstream]
    /\ distccd_response = [w \in Handlers |-> <<>>]
    /\ code = [w \in Handlers |-> 0]
    /\ headers = [w \in Handlers |-> <<>>]
    /\ free_output = [w \in Handlers |-> NotRun]
    /\ free_result = [w \in Handlers |-> <<>>]
    /\ dcc_free_mem = [w \in Handlers |-> None]
    /\ wire = [w \in Handlers |-> <<>>]
    /\ access_log = [w \in Handlers |-> <<>>]
    /\ error_log = [w \in Handlers |-> <<>>]
    /\ sampler_calls = [w \in Handlers |-> 0]
    /\ fetch_calls = [w \in Handlers |-> 0]
    /\ system_log = 0
    /\ instrumented_seen = 0
    /\ warned_now = [w \in Handlers |-> FALSE]
    /\ overlapped = [w \in Handlers |-> FALSE]
    /\ writable = [f \in LogFiles |-> TRUE]
    /\ landed = [w \in Handlers |-> <<>>]

server_vars == <<has_warned_about_being_unnecessary, system_log, instrumented_seen>>
fetch_vars == <<upstream, distccd_response, code, headers, fetch_calls>>
sample_vars == <<free_output, free_result, dcc_free_mem, sampler_calls>>
out_vars == <<wire, access_log, error_log>>
log_vars == <<writable, landed>>

\* a client connects: the connection waits in the listening socket
InstrumentedBranch == {"check_warned", "set_warned", "warn", "passthrough"}

Connect ==
    /\ Len(backlog) < MaxBacklog
    /\ backlog' = Append(backlog, \E v \in Handlers : pc[v] \in InstrumentedBranch)
    /\ UNCHANGED <<server_vars, pc, fetch_vars, sample_vars, out_vars, warned_now,
                   overlapped, log_vars>>

\* a slip: the server is a ThreadingHTTPServer, one thread per connection
CanAcceptThreading == \E v \in Handlers : pc[v] = "idle"

\* HTTPServer handles one request at a time: serve_forever accepts the next
\* connection only after the handler of the last one has returned
CanAccept == \A v \in Handlers : pc[v] = "idle"

\* the handler frame a new request gets: the first free one
FreeFrame(w) == pc[w] = "idle" /\ \A v \in Handlers : v < w => pc[v] # "idle"

\* serve_forever accepts a waiting connection and runs the handler's do_GET
Accept(w) ==
    /\ CanAccept
    /\ FreeFrame(w)
    /\ backlog # <<>>
    /\ instrumented_seen < MaxInstrumented
    /\ backlog' = Tail(backlog)
    /\ overlapped' = [overlapped EXCEPT ![w] = Head(backlog)]
    /\ pc' = [pc EXCEPT ![w] = "fetch"]
    /\ UNCHANGED <<server_vars, fetch_vars, sample_vars, out_vars, warned_now, log_vars>>

\* a client connects to the idle server and is accepted at once: Connect, then
\* Accept, with nothing in between
Arrive(w) ==
    /\ CanAccept
    /\ FreeFrame(w)
    /\ backlog = <<>>
    /\ instrumented_seen < MaxInstrumented
    /\ pc' = [pc EXCEPT ![w] = "fetch"]
    /\ UNCHANGED <<server_vars, backlog, fetch_vars, sample_vars, out_vars, warned_now,
                   overlapped, log_vars>>

\* lines 152-163: urlopen, read, decode; send_error(500) on any exception
Fetch(w, outcomes) ==
    /\ pc[w] = "fetch"
    /\ \E u \in outcomes :
        /\ upstream' = [upstream EXCEPT ![w] = u]
        /\ fetch_calls' = [fetch_calls EXCEPT ![w] = @ + 1]
        /\ IF u.kind # "response" \/ ~Decodable(u.body)
           THEN /\ error_log' = [error_log EXCEPT ![w] = Append(@, "code 500")]
                /\ access_log' = [access_log EXCEPT ![w] =
                        Append(@, LogRequest(INTERNAL_SERVER_ERROR, <<"-">>))]
                /\ landed' = [landed EXCEPT ![w] = @ \o LogMessage(w) \o LogAccess(w)]
                /\ wire' = [wire EXCEPT ![w] = @ \o SendErrorWire]
                /\ pc' = [pc EXCEPT ![w] = "done"]
                /\ UNCHANGED <<distccd_response, code, headers>>
           ELSE /\ distccd_response' = [distccd_response EXCEPT ![w] = Decode(u.body)]
                /\ code' = [code EXCEPT ![w] = u.code]
                /\ headers' = [headers EXCEPT ![w] = u.headers]
                /\ pc' = [pc EXCEPT ![w] = "validate"]
                /\ UNCHANGED <<out_vars, landed>>
    /\ UNCHANGED <<server_vars, backlog, sample_vars, warned_now, overlapped, writable>>

\* a slip: a failed write of the access log raises, and the request ends there
SendResponseLogRaises(w, response, override_code) ==
    /\ access_log' = [access_log EXCEPT ![w] =
            Append(@, SendResponseLog(w, response, override_code))]
    /\ wire' = [wire EXCEPT ![w] =
            IF writable["access"]
            THEN @ \o SendResponseWire(w, response, override_code)
            ELSE @]
    /\ pc' = [pc EXCEPT ![w] = "done"]

\* _send_response: log_request, the status line, the upstream's headers, the body
SendResponse(w, response, override_code) ==
    /\ access_log' = [access_log EXCEPT ![w] =
            Append(@, SendResponseLog(w, response, override_code))]
    /\ wire' = [wire EXCEPT ![w] = @ \o SendResponseWire(w, response, override_code)]
    /\ pc' = [pc EXCEPT ![w] = "done"]

\* a slip: the invalid document is answered 204 without an error-log entry
ValidateSilent(w) ==
    /\ pc[w] = "validate"
    /\ IF Invalid(distccd_response[w])
       THEN /\ landed' = [landed EXCEPT ![w] = @ \o LogAccess(w)]
            /\ SendResponse(w, <<>>, Some(NO_CONTENT))
            /\ UNCHANGED <<error_log, instrumented_seen>>
       ELSE IF Instrumented(distccd_response[w])
       THEN /\ pc' = [pc EXCEPT ![w] = "check_warned"]
            /\ instrumented_seen' = instrumented_seen + 1
            /\ UNCHANGED <<out_vars, landed>>
       ELSE /\ pc' = [pc EXCEPT ![w] = "sample"]
            /\ UNCHANGED <<out_vars, instrumented_seen, landed>>
    /\ UNCHANGED <<has_warned_about_being_unnecessary, system_log, backlog,
                   fetch_vars, sample_vars, warned_now, overlapped, writable>>

\* lines 184-193: the invalid document is answered 204; else the branch is chosen
Validate(w) ==
    /\ pc[w] = "validate"
    /\ IF Invalid(distccd_response[w])
       THEN /\ error_log' = [error_log EXCEPT ![w] =
                    Append(@, "returned empty or invalid response")]
            /\ landed' = [landed EXCEPT ![w] = @ \o LogMessage(w) \o LogAccess(w)]
            /\ SendResponse(w, <<>>, Some(NO_CONTENT))
            /\ UNCHANGED instrumented_seen
       ELSE IF Instrumented(distccd_response[w])
       THEN /\ pc' = [pc EXCEPT ![w] = "check_warned"]
            /\ instrumented_seen' = instrumented_seen + 1
            /\ UNCHANGED <<out_vars, landed>>
       ELSE /\ pc' = [pc EXCEPT ![w] = "sample"]
            /\ UNCHANGED <<out_vars, instrumented_seen, landed>>
    /\ UNCHANGED <<has_warned_about_being_unnecessary, system_log, backlog,
                   fetch_vars, sample_vars, warned_now, overlapped, writable>>

\* line 195: the read of the flag
CheckWarned(w) ==
    /\ pc[w] = "check_warned"
    /\ pc' = [pc EXCEPT ![w] =
            IF ~has_warned_about_being_unnecessary THEN "set_warned" ELSE "passthrough"]
    /\ UNCHANGED <<server_vars, backlog, fetch_vars, sample_vars, out_vars, warned_now,
                   overlapped, log_vars>>

\* a slip: the flag is not written
SetWarnedForgets(w) ==
    /\ pc[w] = "set_warned"
    /\ pc' = [pc EXCEPT ![w] = "warn"]
    /\ UNCHANGED <<server_vars, backlog, fetch_vars, sample_vars, out_vars, warned_now,
                   overlapped, log_vars>>

\* line 196: the write of the flag
SetWarned(w) ==
    /\ pc[w] = "set_warned"
    /\ has_warned_about_being_unnecessary' = TRUE
    /\ pc' = [pc EXCEPT ![w] = "warn"]
    /\ UNCHANGED <<system_log, instrumented_seen, backlog, fetch_vars, sample_vars,
                   out_vars, warned_now, overlapped, log_vars>>

\* lines 197-201: the warning goes to the system log and to the error log
Warn(w) ==
    /\ pc[w] = "warn"
    /\ system_log' = IF writable["system"] THEN system_log + 1 ELSE system_log
    /\ error_log' = [error_log EXCEPT ![w] = Append(@, "stat_server.py is unnecessary")]
    /\ landed' = [landed EXCEPT ![w] =
            @ \o Syslog("warning", "system", 1) \o LogMessage(w)]
    /\ warned_now' = [warned_now EXCEPT ![w] = TRUE]
    /\ pc' = [pc EXCEPT ![w] = "passthrough"]
    /\ UNCHANGED <<has_warned_about_being_unnecessary, instrumented_seen, backlog,
                   fetch_vars, sample_vars, wire, access_log, overlapped, writable>>

\* line 203: the upstream's body is sent as it is
Passthrough(w) ==
    /\ pc[w] = "passthrough"
    /\ landed' = [landed EXCEPT ![w] = @ \o LogAccess(w)]
    /\ SendResponse(w, Encode(distccd_response[w]), None)
    /\ UNCHANGED <<server_vars, backlog, fetch_vars, sample_vars, error_log, warned_now,
                   overlapped, writable>>

\* a slip: no try block around the run of `free`, the exception leaves do_GET
SampleUncaught(w, outcomes) ==
    /\ pc[w] = "sample"
    /\ \E f \in outcomes :
        LET sample == SampleOf(f) IN
        /\ sampler_calls' = [sampler_calls EXCEPT ![w] = @ + 1]
        /\ free_output' = [free_output EXCEPT ![w] = f]
        /\ free_result' = [free_result EXCEPT ![w] = sample.lines]
        /\ dcc_free_mem' = [dcc_free_mem EXCEPT ![w] = sample.value]
        /\ pc' = [pc EXCEPT ![w] = IF sample.raised THEN "done" ELSE "inject"]
    /\ UNCHANGED <<server_vars, backlog, fetch_vars, out_vars, warned_now, overlapped,
                   log_vars>>

\* a slip: a failed run of `free` is tried a second time
SampleRetries(w, outcomes) ==
    /\ pc[w] = "sample"
    /\ \E f \in outcomes :
        LET sample == SampleOf(f) IN
        /\ sampler_calls' = [sampler_calls EXCEPT ![w] = @ + 1]
        /\ free_output' = [free_output EXCEPT ![w] = f]
        /\ free_result' = [free_result EXCEPT ![w] = sample.lines]
        /\ dcc_free_mem' = [dcc_free_mem EXCEPT ![w] = sample.value]
        /\ IF sample.raised /\ sampler_calls[w] = 0
           THEN UNCHANGED <<pc, out_vars, landed>>
           ELSE IF sample.raised
           THEN /\ error_log' = [error_log EXCEPT ![w] =
                        Append(@, "Failed to get valid response from free")]
                /\ landed' = [landed EXCEPT ![w] = @ \o LogMessage(w) \o LogAccess(w)]
                /\ SendResponse(w, Encode(distccd_response[w]),
                                Some(NON_AUTHORITATIVE_INFORMATION))
           ELSE /\ pc' = [pc EXCEPT ![w] = "inject"]
                /\ UNCHANGED <<out_vars, landed>>
    /\ UNCHANGED <<server_vars, backlog, fetch_vars, warned_now, overlapped, writable>>

\* lines 205-225: `free` is run and parsed; a failure is answered 203
Sample(w, outcomes) ==
    /\ pc[w] = "sample"
    /\ \E f \in outcomes :
        LET sample == SampleOf(f) IN
        /\ sampler_calls' = [sampler_calls EXCEPT ![w] = @ + 1]
        /\ free_output' = [free_output EXCEPT ![w] = f]
        /\ free_result' = [free_result EXCEPT ![w] = sample.lines]
        /\ dcc_free_mem' = [dcc_free_mem EXCEPT ![w] = sample.value]
        /\ IF sample.raised
           THEN /\ error_log' = [error_log EXCEPT ![w] =
                        Append(@, "Failed to get valid response from free")]
                /\ landed' = [landed EXCEPT ![w] = @ \o LogMessage(w) \o LogAccess(w)]
                /\ SendResponse(w, Encode(distccd_response[w]),
                                Some(NON_AUTHORITATIVE_INFORMATION))
           ELSE /\ pc' = [pc EXCEPT ![w] = "inject"]
                /\ UNCHANGED <<out_vars, landed>>
    /\ UNCHANGED <<server_vars, backlog, fetch_vars, warned_now, overlapped, writable>>

\* lines 227-231: the metric line is inserted and the body is sent
Inject(w) ==
    /\ pc[w] = "inject"
    /\ landed' = [landed EXCEPT ![w] = @ \o LogAccess(w)]
    /\ SendResponse(w, Encode(Injected(distccd_response[w], dcc_free_mem[w][1])), None)
    /\ UNCHANGED <<server_vars, backlog, fetch_vars, sample_vars, error_log, warned_now,
                   overlapped, writable>>

\* do_GET returns: the handler's frame is gone
Finish(w) ==
    /\ pc[w] = "done"
    /\ pc' = [pc EXCEPT ![w] = "idle"]
    /\ upstream' = [upstream EXCEPT ![w] = NoUpstream]
    /\ distccd_response' = [distccd_response EXCEPT ![w] = <<>>]
    /\ code' = [code EXCEPT ![w] = 0]
    /\ headers' = [headers EXCEPT ![w] = <<>>]
    /\ free_output' = [free_output EXCEPT ![w] = NotRun]
    /\ free_result' = [free_result EXCEPT ![w] = <<>>]
    /\ dcc_free_mem' = [dcc_free_mem EXCEPT ![w] = None]
    /\ wire' = [wire EXCEPT ![w] = <<>>]
    /\ access_log' = [access_log EXCEPT ![w] = <<>>]
    /\ error_log' = [error_log EXCEPT ![w] = <<>>]
    /\ sampler_calls' = [sampler_calls EXCEPT ![w] = 0]
    /\ fetch_calls' = [fetch_calls EXCEPT ![w] = 0]
    /\ warned_now' = [warned_now EXCEPT ![w] = FALSE]
    /\ overlapped' = [overlapped EXCEPT ![w] = FALSE]
    /\ landed' = [landed EXCEPT ![w] = <<>>]
    /\ UNCHANGED <<server_vars, backlog, writable>>

\* bodies of each branch, for the runs with several connections
FewBodies ==
    { Encode(START_MARKER \o LF \o MetricLine(7) \o LF \o END_MARKER \o LF),
      Encode(START_MARKER \o LF \o FOO_1 \o LF \o END_MARKER \o LF),
      Encode(FOO_1 \o LF) }

FewOutcomes == ResponsesOf(FewBodies) \cup {URLError, HTTPError}

\* one connection at a time, every upstream response
Next ==
    \E w \in Handlers :
        \/ Arrive(w)
        \/ Fetch(w, UpstreamOutcomes)
        \/ Validate(w)
        \/ CheckWarned(w)
        \/ SetWarned(w)
        \/ Warn(w)
        \/ Passthrough(w)
        \/ Sample(w, FreeOutcomes)
        \/ Inject(w)
        \/ Finish(w)

Spec == Init /\ [][Next]_vars

\* connections that arrive while a request is handled, a few upstream responses
NextWaiting ==
    \/ Connect
    \/ \E w \in Handlers :
        \/ Accept(w)
        \/ Fetch(w, FewOutcomes)
        \/ Validate(w)
        \/ CheckWarned(w)
        \/ SetWarned(w)
        \/ Warn(w)
        \/ Passthrough(w)
        \/ Sample(w, FreeOutcomes)
        \/ Inject(w)
        \/ Finish(w)

SpecWaiting == Init /\ [][NextWaiting]_vars

\* open(file, 'a') starts or stops failing: permissions, a missing directory,
\* a full disk
Disk ==
    /\ \E f \in LogFiles : writable' = [writable EXCEPT ![f] = ~@]
    /\ UNCHANGED <<server_vars, backlog, pc, fetch_vars, sample_vars, out_vars,
                   warned_now, overlapped, landed>>

\* one connection at a time, log files that cannot always be written
NextLogging ==
    \/ Disk
    \/ \E w \in Handlers :
        \/ Arrive(w)
        \/ Fetch(w, FewOutcomes)
        \/ Validate(w)
        \/ CheckWarned(w)
        \/ SetWarned(w)
        \/ Warn(w)
        \/ Passthrough(w)
        \/ Sample(w, FreeOutcomes)
        \/ Inject(w)
        \/ Finish(w)

SpecLogging == Init /\ [][NextLogging]_vars

(***************************************************************************)
(* What a finished request shows                                           *)
(***************************************************************************)
Done(w) == pc[w] = "done"

IsStatusLine(e) == e.t = "status"
IsHeader(e) == e.t = "header"
IsBody(e) == e.t = "body"

\* the status codes of the status lines written
WireStatuses(w) == SelectSeq(wire[w], IsStatusLine)
WireStatus(w) == WireStatuses(w)[1].v

RECURSIVE BodyOf(_)
BodyOf(events) ==
    IF events = <<>> THEN <<>> ELSE Head(events).v \o BodyOf(Tail(events))

\* the bytes of the body written
WireBody(w) == BodyOf(SelectSeq(wire[w], IsBody))

\* the headers written, as <<name, value>>
WireHeaders(w) == SelectSeq(wire[w], IsHeader)

\* urlopen, read and decode all succeeded
Fetched(w) == upstream[w].kind = "response" /\ Decodable(upstream[w].body)

\* the text of the upstream body
UpstreamText(w) == Decode(upstream[w].body)

HasBothMarkers(text) == In(START_MARKER, text) /\ In(END_MARKER, text)
HasMetric(text) == In(METRIC_TOKEN, text)

\* the lines of the output of `free` that begin with "Mem:"
IsMemLine(line) == StartsWith(line, MEM_PREFIX)
MemLines(w) == SelectSeq(SplitLines(Decode(free_output[w].out)), IsMemLine)
LastFieldIsInt(line) == IsInt(Last(FilterNonEmpty(SplitOnSpace(line))))

\* the sampler was run and returned a value
SamplerReturned(w) ==
    /\ sampler_calls[w] = 1
    /\ free_output[w].ran
    /\ MemLines(w) # <<>>
    /\ \A i \in 1..Len(MemLines(w)) : LastFieldIsInt(MemLines(w)[i])

\* the sampler was run and failed: the command could not be run, no line
\* begins with "Mem:", or a last field is no integer
SamplerFailed(w) ==
    /\ sampler_calls[w] = 1
    /\ \/ ~free_output[w].ran
       \/ MemLines(w) = <<>>
       \/ \E i \in 1..Len(MemLines(w)) : ~LastFieldIsInt(MemLines(w)[i])

\* a valid document without the metric, and a sample
InjectionCase(w) ==
    /\ Done(w) /\ Fetched(w)
    /\ HasBothMarkers(UpstreamText(w)) /\ ~HasMetric(UpstreamText(w))
    /\ SamplerReturned(w)

ExampleBody == START_MARKER \o LF \o FOO_1 \o LF \o END_MARKER \o LF

(***************************************************************************)
(* C1: injection success.  For every upstream body with both markers and   *)
(* without the metric, and a sample N, the body sent has exactly one more  *)
(* line than the upstream body; the added line reads "dcc_free_mem N MB"   *)
(* and sits immediately before the last line of the original; the other    *)
(* lines are unchanged and in the same order.                              *)
(***************************************************************************)
C1_InjectionAddsOneLine ==
    \A w \in Handlers :
        InjectionCase(w) =>
            LET orig == SplitLines(UpstreamText(w))
                out == SplitLines(Decode(WireBody(w)))
                n == Len(orig)
                N == dcc_free_mem[w][1]
            IN /\ Len(out) = n + 1
               /\ out[n] = METRIC_TOKEN \o <<" ">> \o FormatD(N) \o <<" ", "M", "B">>
               /\ ParseInt(SubSeq(out[n], Len(METRIC_TOKEN) + 2, Len(out[n]) - 3)) = N
               /\ out[n + 1] = orig[n]
               /\ \A i \in 1..(n - 1) : out[i] = orig[i]

C1_Witness ==
    \E w \in Handlers :
        /\ InjectionCase(w)
        /\ Len(SplitLines(UpstreamText(w))) = 3
        /\ dcc_free_mem[w] = Some(512)
        /\ Len(SplitLines(Decode(WireBody(w)))) = 4

(***************************************************************************)
(* C2: in every branch that relays an upstream response, the Content-Length*)
(* header sent to the caller equals the byte length of the body written.   *)
(***************************************************************************)
C2_ContentLengthIsBodyLength ==
    \A w \in Handlers :
        Done(w) /\ Fetched(w) =>
            \A i \in 1..Len(WireHeaders(w)) :
                WireHeaders(w)[i].v[1] = "Content-Length" =>
                    WireHeaders(w)[i].v[2] = FormatD(Len(WireBody(w)))

(***************************************************************************)
(* C3, as claimed: for every upstream body that contains the metric token, *)
(* the body sent is byte for byte the upstream body and the status sent is *)
(* the upstream status.                                                    *)
(***************************************************************************)
C3_Original ==
    \A w \in Handlers :
        Done(w) /\ Fetched(w) /\ HasMetric(UpstreamText(w)) =>
            /\ WireBody(w) = upstream[w].body
            /\ WireStatus(w) = upstream[w].code

(***************************************************************************)
(* C3, amended: for every upstream body that contains both document        *)
(* markers and the metric token, the body sent is byte for byte the        *)
(* upstream body and the status sent is the upstream status.               *)
(***************************************************************************)
C3_PassThrough ==
    \A w \in Handlers :
        /\ Done(w) /\ Fetched(w)
        /\ HasBothMarkers(UpstreamText(w)) /\ HasMetric(UpstreamText(w))
        => /\ WireBody(w) = upstream[w].body
           /\ WireStatus(w) = upstream[w].code
           /\ Len(WireStatuses(w)) = 1

C3_Witness ==
    \E w \in Handlers :
        /\ Done(w) /\ Fetched(w)
        /\ HasBothMarkers(UpstreamText(w)) /\ HasMetric(UpstreamText(w))
        /\ upstream[w].code = 206
        /\ WireStatus(w) = 206
        /\ WireBody(w) # <<>>

(***************************************************************************)
(* C4: invalid document.  When the fetched body is empty, or lacks the     *)
(* start marker, or lacks the end marker, the status is 204, the body is   *)
(* empty and the memory sampler is not run.                                *)
(***************************************************************************)
C4_InvalidIs204 ==
    \A w \in Handlers :
        /\ Done(w) /\ Fetched(w)
        /\ \/ UpstreamText(w) = <<>>
           \/ ~In(START_MARKER, UpstreamText(w))
           \/ ~In(END_MARKER, UpstreamText(w))
        => /\ WireStatuses(w) = <<StatusLine(204)>>
           /\ WireBody(w) = <<>>
           /\ sampler_calls[w] = 0

C4_Witness ==
    \E w \in Handlers :
        /\ Done(w) /\ Fetched(w)
        /\ In(START_MARKER, UpstreamText(w))
        /\ ~In(END_MARKER, UpstreamText(w))
        /\ WireStatus(w) = 204

(***************************************************************************)
(* C5: injection failure.  When the upstream body is valid and lacks the   *)
(* metric and the memory sampler fails, the status is 203 and the body     *)
(* sent is the upstream body, unmodified.                                  *)
(***************************************************************************)
C5_SamplerFailureIs203 ==
    \A w \in Handlers :
        /\ Done(w) /\ Fetched(w)
        /\ HasBothMarkers(UpstreamText(w)) /\ ~HasMetric(UpstreamText(w))
        /\ SamplerFailed(w)
        => /\ WireStatuses(w) = <<StatusLine(203)>>
           /\ WireBody(w) = upstream[w].body

C5_Witness ==
    \E w \in Handlers :
        /\ Done(w) /\ Fetched(w)
        /\ HasBothMarkers(UpstreamText(w)) /\ ~HasMetric(UpstreamText(w))
        /\ free_output[w].ran /\ MemLines(w) = <<>>
        /\ WireStatus(w) = 203
        /\ WireBody(w) = upstream[w].body

(***************************************************************************)
(* C6: unreachable upstream.  When the upstream fetch fails, the status is *)
(* 500, the response carries a diagnostic string and the memory sampler is *)
(* not run in that request.                                                *)
(***************************************************************************)
C6_FetchFailureIs500 ==
    \A w \in Handlers :
        Done(w) /\ ~Fetched(w) =>
            /\ WireStatuses(w) = <<StatusLine(500)>>
            /\ In(ERROR_PAGE, WireBody(w))
            /\ sampler_calls[w] = 0

C6_Witness ==
    \E w \in Handlers :
        /\ Done(w)
        /\ upstream[w].kind = "URLError"
        /\ WireStatus(w) = 500

(***************************************************************************)
(* The one-time warning                                                    *)
(***************************************************************************)
\* the request is in, or went through, the already-instrumented branch
TookInstrumented(w) ==
    Fetched(w) /\ HasBothMarkers(UpstreamText(w)) /\ HasMetric(UpstreamText(w))

(***************************************************************************)
(* C7: one-time warning.  Over any sequence of requests, the warning is    *)
(* emitted during the first request that takes the already-instrumented    *)
(* branch and during no later request: there is never more than one        *)
(* warning line, a request that emitted it is the first of that branch,    *)
(* and a finished request of that branch emitted it exactly if it is the   *)
(* first.                                                                  *)
(***************************************************************************)
C7_WarnsOnFirstOnly ==
    /\ system_log <= 1
    /\ \A w \in Handlers : warned_now[w] => instrumented_seen = 1
    /\ \A w \in Handlers :
        Done(w) /\ TookInstrumented(w) =>
            /\ system_log = 1
            /\ warned_now[w] <=> instrumented_seen = 1

C7_Witness ==
    \E w \in Handlers :
        /\ Done(w) /\ TookInstrumented(w)
        /\ instrumented_seen = 2
        /\ ~warned_now[w]
        /\ system_log = 1

(***************************************************************************)
(* C8: concurrent one-time warning.  When a request that takes the         *)
(* already-instrumented branch arrives while another request is in that    *)
(* branch, the warning line is written exactly once across both; between a *)
(* handler's read of the flag as unset and its write of the flag, the flag *)
(* stays unset and no other handler is in the branch.                      *)
(***************************************************************************)
C8_CheckAndSetIsAtomic ==
    /\ \A w \in Handlers :
        pc[w] = "set_warned" =>
            /\ ~has_warned_about_being_unnecessary
            /\ \A v \in Handlers \ {w} : pc[v] \notin InstrumentedBranch
    /\ system_log <= 1
    /\ \A w \in Handlers :
        Done(w) /\ TookInstrumented(w) /\ overlapped[w] =>
            system_log = 1 /\ ~warned_now[w]

C8_Witness ==
    \E w \in Handlers :
        /\ Done(w) /\ TookInstrumented(w) /\ overlapped[w]
        /\ instrumented_seen = 2
        /\ system_log = 1

(***************************************************************************)
(* C9, as claimed: the upstream body "<distccstats>\nfoo 1\n               *)
(* </distccstats>\n" with a sample of 512 yields a body that ends in two   *)
(* newline characters.                                                     *)
(***************************************************************************)
EXAMPLE_METRIC_LINE == <<"d","c","c","_","f","r","e","e","_","m","e","m"," ","5","1","2"," ","M","B">>

C9_Original ==
    \A w \in Handlers :
        InjectionCase(w) /\ UpstreamText(w) = ExampleBody /\ dcc_free_mem[w] = Some(512) =>
            WireBody(w) = START_MARKER \o LF \o FOO_1 \o LF \o EXAMPLE_METRIC_LINE \o LF
                            \o END_MARKER \o LF \o LF

(***************************************************************************)
(* C9, amended: on injection success the body sent is the original lines   *)
(* with the metric line inserted before the last one, every line, the last *)
(* included, followed by one newline: the example yields                   *)
(* "<distccstats>\nfoo 1\ndcc_free_mem 512 MB\n</distccstats>\n", which    *)
(* ends in one newline character.                                          *)
(***************************************************************************)
C9_OneTrailingNewline ==
    \A w \in Handlers :
        InjectionCase(w) =>
            LET orig == SplitLines(UpstreamText(w))
                n == Len(orig)
                line == METRIC_TOKEN \o <<" ">> \o FormatD(dcc_free_mem[w][1])
                            \o <<" ", "M", "B">>
            IN /\ WireBody(w) =
                    Encode(Unlines(SubSeq(orig, 1, n - 1) \o <<line, orig[n]>>))
               /\ UpstreamText(w) = ExampleBody /\ dcc_free_mem[w] = Some(512) =>
                    WireBody(w) = START_MARKER \o LF \o FOO_1 \o LF
                                    \o EXAMPLE_METRIC_LINE \o LF \o END_MARKER \o LF

C9_Witness ==
    \E w \in Handlers :
        /\ InjectionCase(w)
        /\ UpstreamText(w) = ExampleBody
        /\ dcc_free_mem[w] = Some(512)
        /\ Last(WireBody(w)) = "\n"

(***************************************************************************)
(* C10: for every GET request, whichever branch it ends in, exactly one    *)
(* access-log entry is emitted, and the status code it records is the      *)
(* status code sent to the caller.                                         *)
(***************************************************************************)
C10_OneAccessLogEntry ==
    \A w \in Handlers :
        /\ Len(access_log[w]) <= 1
        /\ Done(w) =>
            /\ Len(access_log[w]) = 1
            /\ Len(WireStatuses(w)) = 1
            /\ access_log[w][1].code = FormatD(WireStatus(w))
            /\ ParseInt(access_log[w][1].code) = WireStatus(w)

C10_Witness ==
    \E w \in Handlers :
        /\ Done(w)
        /\ WireStatus(w) = 203
        /\ upstream[w].code = 200
        /\ access_log[w] = <<[code |-> <<"2", "0", "3">>,
                             size |-> FormatD(Len(WireBody(w)))]>>

(***************************************************************************)
(* C11: every GET request ends with exactly one response to the caller,    *)
(* whose status is the upstream status or one of 500, 204, 203; no failure *)
(* of the fetch, of the validation or of the sampler leaves a request      *)
(* without a response (a handler that has not answered yet can take its    *)
(* next step, the injection having its sample) or stops the server (a      *)
(* handler that has answered returns, and the idle server takes the next   *)
(* request).                                                               *)
(***************************************************************************)
HandlerStep(w) ==
    \/ Fetch(w, UpstreamOutcomes)
    \/ Validate(w)
    \/ CheckWarned(w)
    \/ SetWarned(w)
    \/ Warn(w)
    \/ Passthrough(w)
    \/ Sample(w, FreeOutcomes)

C11_OneResponsePerRequest ==
    /\ \A w \in Handlers :
        /\ Len(WireStatuses(w)) <= 1
        /\ pc[w] \notin {"idle", "done"} => WireStatuses(w) = <<>>
        /\ pc[w] \notin {"idle", "done", "inject"} => ENABLED HandlerStep(w)
        /\ pc[w] = "inject" => dcc_free_mem[w] # None
        /\ Done(w) =>
            /\ Len(WireStatuses(w)) = 1
            /\ Len(SelectSeq(wire[w], IsBody)) <= 1
            /\ WireStatus(w) \in
                    (IF Fetched(w) THEN {upstream[w].code, 204, 203} ELSE {500})
            /\ ENABLED Finish(w)
    /\ (\A w \in Handlers : pc[w] = "idle") /\ instrumented_seen < MaxInstrumented =>
            ENABLED (\E w \in Handlers : Arrive(w))

C11_Witness ==
    \E w \in Handlers :
        /\ Done(w) /\ Fetched(w)
        /\ SamplerFailed(w)
        /\ WireStatuses(w) = <<StatusLine(203)>>
        /\ ENABLED Finish(w)

(***************************************************************************)
(* C12: the invalid-document branch.  As first stated: the 204 response    *)
(* carries none of the headers the upstream response had.                  *)
(***************************************************************************)
InvalidCase(w) ==
    /\ Done(w) /\ Fetched(w)
    /\ \/ UpstreamText(w) = <<>>
       \/ ~In(START_MARKER, UpstreamText(w))
       \/ ~In(END_MARKER, UpstreamText(w))

\* the <<name, value>> pairs of the headers written, in the order written
WireHeaderPairs(w) == [i \in 1..Len(WireHeaders(w)) |-> WireHeaders(w)[i].v]

Occurrences(sub, s) == Cardinality(Positions(sub, s))

OnceEachInOrder(text) ==
    /\ Occurrences(START_MARKER, text) = 1
    /\ Occurrences(END_MARKER, text) = 1
    /\ FirstAt(START_MARKER, text) < FirstAt(END_MARKER, text)

\* the request was answered by the 204 branch
Answered204(w) == WireStatuses(w) = <<StatusLine(NO_CONTENT)>>

C13_Original ==
    \A w \in Handlers :
        Done(w) /\ Fetched(w) /\ ~OnceEachInOrder(UpstreamText(w)) => Answered204(w)

(***************************************************************************)
(* C13, as the code has it: a body is treated as a valid document exactly  *)
(* when it contains the start marker at least once and the end marker at   *)
(* least once, whatever their number and their order; every other body     *)
(* ends in the 204 branch.                                                 *)
(***************************************************************************)
C13_ValidIffBothMarkersOccur ==
    \A w \in Handlers :
        Done(w) /\ Fetched(w) =>
            (~Answered204(w) <=>
                /\ Occurrences(START_MARKER, UpstreamText(w)) >= 1
                /\ Occurrences(END_MARKER, UpstreamText(w)) >= 1)

C13_Witness ==
    \E w \in Handlers :
        /\ Done(w) /\ Fetched(w)
        /\ In(START_MARKER, UpstreamText(w)) /\ In(END_MARKER, UpstreamText(w))
        /\ FirstAt(END_MARKER, UpstreamText(w)) < FirstAt(START_MARKER, UpstreamText(w))
        /\ WireStatuses(w) = <<StatusLine(upstream[w].code)>>
        /\ WireBody(w) # <<>>

(***************************************************************************)
(* C14: the parse of the memory report.  For every output of the command,  *)
(* the sample is the integer value of the last field of the FIRST line     *)
(* that begins with "Mem:"; later such lines neither change the sample nor *)
(* make it fail; the sampler fails exactly when no line begins with "Mem:" *)
(* or the last field of that first line is no integer.                     *)
(***************************************************************************)
FirstMemLineSample(w) == ParseInt(Last(FilterNonEmpty(SplitOnSpace(MemLines(w)[1]))))

C14_FirstMemLineIsTheSample ==
    \A w \in Handlers :
        sampler_calls[w] = 1 /\ free_output[w].ran =>
            IF MemLines(w) = <<>> \/ ~LastFieldIsInt(MemLines(w)[1])
            THEN /\ Done(w)
                 /\ WireStatuses(w) = <<StatusLine(NON_AUTHORITATIVE_INFORMATION)>>
            ELSE /\ dcc_free_mem[w] = Some(FirstMemLineSample(w))
                 /\ pc[w] \in {"inject", "done"}
                 /\ Done(w) =>
                        /\ WireStatuses(w) = <<StatusLine(upstream[w].code)>>
                        /\ In(MetricLine(FirstMemLineSample(w)), Decode(WireBody(w)))

(***************************************************************************)
(* C15: the order of a response of _send_response.  In every branch that   *)
(* answers through _send_response the status line is written first, every  *)
(* header after the status line, the header section is closed after the    *)
(* last header, and no byte of the body is written before the header       *)
(* section is closed.                                                      *)
(***************************************************************************)
IsEndHeaders(e) == e.t = "end_headers"

\* where the header section is closed
EndHeadersAt(w) == {i \in 1..Len(wire[w]) : IsEndHeaders(wire[w][i])}

C15_StatusHeadersEndBody ==
    \A w \in Handlers :
        Fetched(w) /\ wire[w] # <<>> =>
            /\ IsStatusLine(wire[w][1])
            /\ Len(WireStatuses(w)) = 1
            /\ Cardinality(EndHeadersAt(w)) = 1
            /\ \A i \in 1..Len(wire[w]) : \A e \in EndHeadersAt(w) :
                /\ IsHeader(wire[w][i]) => 1 < i /\ i < e
                /\ IsBody(wire[w][i]) => e < i
            /\ Len(SelectSeq(wire[w], IsBody)) = 1

C15_Witness ==
    \E w \in Handlers :
        /\ Done(w) /\ Fetched(w)
        /\ Len(WireHeaders(w)) = 3
        /\ EndHeadersAt(w) = {5}
        /\ IsBody(wire[w][6]) /\ wire[w][6].v # <<>>

(***************************************************************************)
(* C16: the error log.  A request that ends in the upstream-error branch,  *)
(* in the invalid-document branch or in the injection-failure branch       *)
(* writes exactly one error-log entry; a request that ends in the          *)
(* injection-success branch writes none.                                   *)
(***************************************************************************)
InjectionFailureCase(w) ==
    /\ Done(w) /\ Fetched(w)
    /\ HasBothMarkers(UpstreamText(w)) /\ ~HasMetric(UpstreamText(w))
    /\ SamplerFailed(w)

C16_OneErrorLogEntryPerFailure ==
    \A w \in Handlers :
        /\ Done(w) /\ ~Fetched(w) => error_log[w] = <<"code 500">>
        /\ InvalidCase(w) => error_log[w] = <<"returned empty or invalid response">>
        /\ InjectionFailureCase(w) =>
                error_log[w] = <<"Failed to get valid response from free">>
        /\ InjectionCase(w) => error_log[w] = <<>>

C16_Witness ==
    \E w \in Handlers :
        /\ InjectionFailureCase(w)
        /\ free_output[w].ran
        /\ Len(error_log[w]) = 1
        /\ WireBody(w) = upstream[w].body

(***************************************************************************)
(* C17: single shot.  Each request fetches from the upstream exactly once  *)
(* and runs the memory sampler at most once; neither is repeated after a   *)
(* failure; the sample is taken within the request that needs it: before   *)
(* the sampler has run the request has no sample, and the sample injected  *)
(* is the one of this request's run of the command.                        *)
(***************************************************************************)
LastMemLineSample(w) ==
    ParseInt(Last(FilterNonEmpty(SplitOnSpace(Last(MemLines(w))))))

C17_SingleShotFreshSample ==
    \A w \in Handlers :
        /\ fetch_calls[w] <= 1
        /\ sampler_calls[w] <= 1
        /\ pc[w] \notin {"idle", "fetch"} => fetch_calls[w] = 1
        /\ pc[w] \in {"idle", "fetch"} => fetch_calls[w] = 0
        /\ Done(w) /\ ~Fetched(w) => sampler_calls[w] = 0
        /\ sampler_calls[w] = 0 => dcc_free_mem[w] = None /\ free_output[w] = NotRun
        /\ pc[w] = "inject" => sampler_calls[w] = 1
        /\ InjectionCase(w) =>
            /\ dcc_free_mem[w] = Some(LastMemLineSample(w))
            /\ In(MetricLine(LastMemLineSample(w)), Decode(WireBody(w)))

C17_Witness ==
    \E w \in Handlers :
        /\ has_warned_about_being_unnecessary
        /\ InjectionCase(w)
        /\ fetch_calls[w] = 1 /\ sampler_calls[w] = 1
        /\ dcc_free_mem[w] = Some(9)

(***************************************************************************)
(* C18: best-effort logging.  When the write of an access-log or error-log *)
(* line fails, the failure is swallowed: the line goes to the system log   *)
(* (to the standard error when the system log cannot be written either)    *)
(* after a note of the failure, and is printed on the standard error; the  *)
(* request goes on, and in every branch the status and the body sent are   *)
(* those the upstream response and the output of `free` determine,         *)
(* whether the log files can be written or not.                            *)
(***************************************************************************)
\* the status and the body each branch sends, from the request's inputs alone
ExpectedStatus(w) ==
    IF ~Fetched(w) THEN INTERNAL_SERVER_ERROR
    ELSE IF UpstreamText(w) = <<>> \/ ~HasBothMarkers(UpstreamText(w)) THEN NO_CONTENT
    ELSE IF HasMetric(UpstreamText(w)) THEN upstream[w].code
    ELSE IF SamplerFailed(w) THEN NON_AUTHORITATIVE_INFORMATION
    ELSE upstream[w].code

ExpectedBody(w) ==
    IF ~Fetched(w) THEN ERROR_PAGE
    ELSE IF UpstreamText(w) = <<>> \/ ~HasBothMarkers(UpstreamText(w)) THEN <<>>
    ELSE IF HasMetric(UpstreamText(w)) \/ SamplerFailed(w) THEN upstream[w].body
    ELSE Encode(Injected(UpstreamText(w), LastMemLineSample(w)))

\* the lines that landed for the n-th entry of a file, in the order they landed
IsAbout(what, file, n, r) == r.what = what /\ r.file = file /\ r.n = n
LandedFor(w, what, file, n) ==
    SelectSeq(landed[w], LAMBDA r : IsAbout(what, file, n, r))

\* the entry is in its file, or a note and the entry went to _syslog and the
\* entry was printed
WrittenOrMirrored(w, file, n) ==
    LET entry == LandedFor(w, "entry", file, n)
        note == LandedFor(w, "note", file, n)
    IN \/ /\ entry = <<Landed(file, "log", "entry", file, n)>>
          /\ note = <<>>
       \/ /\ Len(entry) = 2 /\ Len(note) = 1
          /\ note[1].by = "_syslog" /\ note[1].to \in {"system", "stderr"}
          /\ entry[1].by = "_syslog" /\ entry[1].to = note[1].to
          /\ entry[2] = Landed("stderr", "log", "entry", file, n)

C18_LoggingIsBestEffort ==
    \A w \in Handlers :
        Done(w) =>
            /\ WireStatuses(w) = <<StatusLine(ExpectedStatus(w))>>
            /\ WireBody(w) = ExpectedBody(w)
            /\ Len(access_log[w]) = 1
            /\ \A n \in 1..Len(access_log[w]) : WrittenOrMirrored(w, "access", n)
            /\ \A n \in 1..Len(error_log[w]) : WrittenOrMirrored(w, "error", n)
            /\ \A i \in 1..Len(landed[w]) :
                    landed[w][i].what \in {"entry", "note"} =>
                        landed[w][i].n <= Len(IF landed[w][i].file = "access"
                                              THEN access_log[w] ELSE error_log[w])

\* the access log and the system log both failed; the answer is the 203 one
C18_Witness ==
    \E w \in Handlers :
        /\ Done(w) /\ InjectionFailureCase(w)
        /\ LandedFor(w, "entry", "error", 1) = <<Landed("error", "log", "entry", "error", 1)>>
        /\ LandedFor(w, "entry", "access", 1) =
                <<Landed("stderr", "_syslog", "entry", "access", 1),
                  Landed("stderr", "log", "entry", "access", 1)>>
        /\ WireStatuses(w) = <<StatusLine(NON_AUTHORITATIVE_INFORMATION)>>
        /\ WireBody(w) = upstream[w].body

(***************************************************************************)
(* C19: on injection success the injected "dcc_free_mem N MB" line lies    *)
(* inside the document: after the line that holds the start marker and     *)
(* before the line that holds the end marker, for every body that is       *)
(* accepted as valid.                                                      *)
(***************************************************************************)
C19_InjectedLineIsInsideTheDocument ==
    \A w \in Handlers :
        InjectionCase(w) =>
            LET out == SplitLines(Decode(WireBody(w)))
                at == {i \in 1..Len(out) : out[i] = MetricLine(dcc_free_mem[w][1])}
            IN /\ Cardinality(at) = 1
               /\ \A m \in at :
                    /\ \E i \in 1..(m - 1) : In(START_MARKER, out[i])
                    /\ \E j \in (m + 1)..Len(out) : In(END_MARKER, out[j])

(***************************************************************************)
(* C20: the response tells whether the metric is present.  Every response  *)
(* sent without a status override (the already-instrumented and the        *)
(* injection-success branches: the status is the upstream's) has a body    *)
(* that contains the token dcc_free_mem; every response sent with the      *)
(* overriding status 203 or 204 has a body that does not contain it.       *)
(***************************************************************************)
Overrides == {NON_AUTHORITATIVE_INFORMATION, NO_CONTENT}

C20_StatusTellsWhetherMetricIsPresent ==
    \A w \in Handlers :
        Done(w) /\ Fetched(w) =>
            /\ Len(WireStatuses(w)) = 1
            /\ upstream[w].code \notin Overrides
            /\ \A i \in 1..Len(WireStatuses(w)) :
                LET status == WireStatuses(w)[i].v IN
                /\ status \in Overrides \cup {upstream[w].code}
                /\ status = upstream[w].code => HasMetric(Decode(WireBody(w)))
                /\ status \in Overrides => ~HasMetric(Decode(WireBody(w)))

C20_Witness ==
    \E w \in Handlers :
        /\ InjectionCase(w)
        /\ upstream[w].code = 206
        /\ WireStatuses(w) = <<StatusLine(206)>>
        /\ ~HasMetric(UpstreamText(w))
        /\ HasMetric(Decode(WireBody(w)))

====
